---- MODULE Spec2Model ----
(***************************************************************************)
(* Model of src/src/server.ts: the bridge between a hyper-express server   *)
(* and the Remix rendering engine.                                         *)
(*                                                                         *)
(* The handler returned by createRequestHandler is an async function.  Its *)
(* synchronous stretches run to completion (JavaScript's event loop), so   *)
(* the variable `running` says that the handler's code is executing; the   *)
(* events of the environment (a connection closing, a promise settling, a  *)
(* file changing on disk, the next request arriving) happen only while it  *)
(* is FALSE, that is while the handler is suspended at an await or done.   *)
(* Requests share nothing but require.cache; they are modelled one after   *)
(* another, each starting from a fresh per-request record.                 *)
(***************************************************************************)
EXTENDS Integers, Sequences, FiniteSets, TLC

\* ------------------------------------------------------------------ bounds

MaxRequests == 2      \* requests the handler receives, one after another
MaxVersion  == 2      \* versions the build module takes on disk
MaxChunks   == 2      \* chunks of a canonical response's body stream

\* ----------------------------------------------------------------- strings
\* Paths are sequences of characters, so that startsWith and replace are
\* computed as String.prototype computes them.

StartsWith(s, p) ==
    /\ Len(s) >= Len(p)
    /\ SubSeq(s, 1, Len(p)) = p

\* String.prototype.replace(pattern, replacement) with a string pattern:
\* the first occurrence only.
Replace(s, pat, rep) ==
    LET hits == {i \in 1..(Len(s) - Len(pat) + 1) :
                    SubSeq(s, i, i + Len(pat) - 1) = pat}
    IN IF hits = {} THEN s
       ELSE LET i == CHOOSE k \in hits : \A j \in hits : k <= j
            IN SubSeq(s, 1, i - 1) \o rep \o SubSeq(s, i + Len(pat), Len(s))

BuildPrefix == <<"/", "b", "u", "i", "l", "d">>      \* "/build"

\* Request paths the environment sends.
PathBuiltA    == BuildPrefix \o <<"/", "a">>         \* /build/a    built, cached
PathBuiltB    == BuildPrefix \o <<"/", "b">>         \* /build/b    built, streamed
PathBuildings == BuildPrefix \o <<"i", "/", "a">>    \* /buildi/a   another segment
PathPublicF   == <<"/", "f">>                        \* /f          public, cached
PathPublicV   == <<"/", "v">>                        \* /v          public, streamed
PathRoute     == <<"/", "r">>                        \* /r          an application route

Paths == {PathBuiltA, PathBuiltB, BuildPrefix, PathBuildings,
          PathPublicF, PathPublicV, PathRoute}

\* ------------------------------------------------------- static-asset indexes
\* LiveDirectory.get(path): the asset record, or undefined.

NoAsset == [content |-> "none", cached |-> FALSE]

builtAssets(path) ==
    IF path = <<"/", "a">> THEN [content |-> "built-a", cached |-> TRUE]
    ELSE IF path = <<"/", "b">> THEN [content |-> "built-b", cached |-> FALSE]
    ELSE NoAsset

publicAssets(path) ==
    IF path = PathPublicF THEN [content |-> "public-f", cached |-> TRUE]
    ELSE IF path = PathPublicV THEN [content |-> "public-v", cached |-> FALSE]
    ELSE NoAsset

\* A variant: the test of the lookup's result is dropped.
FoundAlways(asset) == TRUE

\* if (asset)
Found(asset) == asset # NoAsset

ONE_YEAR == 1 * 365 * 24 * 60 * 60

\* A variant: the public lifetime taken from the built-assets branch.
ONE_HOUR_AsBuilt == ONE_YEAR

ONE_HOUR == 1 * 60 * 60

\* ------------------------------------------------------ the outbound response
\* Every call made on the hyper-express response is logged, in order.

Call(op, name, value, num, flag) ==
    [op |-> op, name |-> name, value |-> value, num |-> num, flag |-> flag]

\* response.status(code, text)
StatusCall(code, text) == Call("status", text, "", code, FALSE)
\* response.header(name, value, overwrite); overwrite defaults to true
HeaderCall(name, value, overwrite) == Call("header", name, value, 0, overwrite)
\* response.header("Cache-Control", `max-age=${seconds}`)
CacheControlCall(seconds) == Call("header", "Cache-Control", "max-age=", seconds, TRUE)
\* response.send(body)
SendCall(body) == Call("send", "", body, 0, FALSE)
\* readable.pipe(response)
PipeCall(body) == Call("pipe", "", body, 0, FALSE)
\* a chunk written into the response by writeReadableStreamToWritable
WriteCall(chunk) == Call("write", "", "", chunk, FALSE)

\* The values the outbound response holds under `name` after the calls:
\* header(name, value, overwrite) replaces the values held when overwrite is
\* true and appends to them when it is false.
RECURSIVE OutboundValues(_, _)
OutboundValues(calls, name) ==
    IF calls = <<>> THEN <<>>
    ELSE LET c    == calls[Len(calls)]
             rest == OutboundValues(SubSeq(calls, 1, Len(calls) - 1), name)
         IN IF c.op = "header" /\ c.name = name
            THEN IF c.flag THEN <<c.value>> ELSE Append(rest, c.value)
            ELSE rest

\* ------------------------------------------------------ canonical responses
\* headers.raw(): name -> values, as a sequence of [name, values] in the
\* order Object.entries gives.  A body is null or a stream of chunks 1..n.

NoBody == <<0>>

Bodies == {NoBody} \cup {[i \in 1..n |-> i] : n \in 0..MaxChunks}

Response(status, statusText, headers, body) ==
    [status |-> status, statusText |-> statusText, headers |-> headers, body |-> body]

HeaderEntry(name, values) == [name |-> name, values |-> values]

NoResponse == Response(0, "", <<>>, NoBody)

SetCookies == HeaderEntry("set-cookie", <<"a", "b">>)

RawHeaders ==
    { <<>>, <<SetCookies>>, <<HeaderEntry("content-type", <<"t">>), SetCookies>> }

\* What the rendering engine answers.
EngineResponses ==
    { Response(200, "OK", <<SetCookies>>, b) : b \in Bodies }
    \cup { Response(404, "Not Found", h, NoBody) : h \in RawHeaders }

\* ---------------------------------------------------------- inbound headers
\* request.headers: name -> string | string[] | undefined, as a sequence of
\* [name, value] in the order Object.entries gives.

Str(s)    == [kind |-> "string", values |-> <<s>>]
Arr(vs)   == [kind |-> "array", values |-> vs]
Undefined == [kind |-> "undefined", values |-> <<>>]

InboundHeaders ==
    { <<HeaderEntry("x-a", Arr(<<"1", "2">>)), HeaderEntry("x-b", Str("v"))>>,
      <<HeaderEntry("x-u", Undefined), HeaderEntry("x-l", Arr(<<>>)),
        HeaderEntry("x-e", Str("")), HeaderEntry("x-b", Str("v"))>> }

\* JavaScript truthiness of a header value: undefined and "" are falsy, an
\* array is truthy whatever it holds.
Truthy(v) == v.kind = "array" \/ (v.kind = "string" /\ v.values[1] # "")

Pair(name, value) == [name |-> name, value |-> value]

\* Headers.prototype.append
HeadersAppend(headers, key, value) == Append(headers, Pair(key, value))

\* Headers.prototype.set: the entries of that name are replaced
HeadersSet(headers, key, value) ==
    LET Other(e) == e.name # key
    IN Append(SelectSeq(headers, Other), Pair(key, value))

RECURSIVE AppendEach(_, _, _)
AppendEach(headers, key, values) ==
    IF values = <<>> THEN headers
    ELSE AppendEach(HeadersAppend(headers, key, values[1]), key, Tail(values))

RECURSIVE CopyHeaders(_, _)
CopyHeaders(headers, entries) ==
    IF entries = <<>> THEN headers
    ELSE LET key    == entries[1].name
             values == entries[1].values
             next   == IF Truthy(values)
                       THEN IF values.kind = "array"
                            THEN AppendEach(headers, key, values.values)
                            ELSE HeadersSet(headers, key, values.values[1])
                       ELSE headers
         IN CopyHeaders(next, Tail(entries))

createRemixHeaders(requestHeaders) == CopyHeaders(<<>>, requestHeaders)

\* ------------------------------------------------------------- module cache
\* require.cache: file name -> loaded module (here its version).  The build
\* module and the files it loads have names starting with the build path.

Build      == <<"b">>
BuildDep   == <<"b", "d">>
OtherFile  == <<"o">>

Errors == {"E1", "E2"}
NoError == "none"

\* ---------------------------------------------------------------- variables

VARIABLES
    config,         \* the options createRequestHandler was called with
    moduleCache,    \* require.cache
    disk,           \* the version of the build module on disk
    running,        \* the handler's synchronous code is executing
    handled,        \* requests received so far
    rq              \* the current request: the handler's position and what it did

vars == <<config, moduleCache, disk, running, handled, rq>>

production == config.mode = "production"

IdleRequest ==
    [pc           |-> "idle",
     path         |-> <<>>,
     headers      |-> <<>>,       \* request.headers
     closed       |-> FALSE,      \* the response's close event has occurred
     closedAt     |-> "never",    \* the handler's position when it occurred
     listener     |-> FALSE,      \* response.on("close", ...) is registered
     aborted      |-> FALSE,      \* controller.signal.aborted
     remixHeaders |-> <<>>,       \* the canonical request's headers
     raised       |-> NoError,    \* the error value raised, if any
     raisedAt     |-> "never",
     outcome      |-> "pending",  \* of the handler's promise
     retval       |-> "none",
     prevBuild    |-> 0,          \* the build version the previous request resolved
     serverBuild  |-> 0,          \* the build version this request resolved
     lookups      |-> <<>>,       \* index lookups: [index, key]
     served       |-> "none",     \* the index a static asset was served from
     steps        |-> <<>>,       \* lifecycle steps executed, in order
     hookResolved |-> FALSE,
     engineCalls  |-> 0,
     nodeResponse |-> NoResponse,
     written      |-> 0,          \* chunks of the body forwarded
     calls        |-> <<>>]       \* calls on the outbound response

Init ==
    /\ config \in [mode : {"production", "development"},
                   enablePurgeRequireCache : BOOLEAN,
                   enableServeStaticAssets : BOOLEAN,
                   getLoadContext : BOOLEAN]
    /\ moduleCache = (OtherFile :> 1)
    /\ disk = 1
    /\ running = FALSE
    /\ handled = 0
    /\ rq = IdleRequest

\* ------------------------------------------------------------ the handler

\* catch (error) { return error; }
CatchReturn(error) == error

\* A variant: the call of sendRemixResponse stands after the try block.
InsideTryWithoutSend(pc) ==
    pc \in {"import", "purge", "static", "translate", "hook", "hookwait", "enginewait"}

\* The handler's positions inside try { ... }.
InsideTry(pc) ==
    pc \in {"import", "purge", "static", "translate", "hook", "hookwait",
            "enginewait", "send", "stream"}

\* An error raised at the handler's position: caught and returned, or, were
\* it raised outside the try block, the handler's promise rejected with it.
Caught(q, error) ==
    IF InsideTry(q.pc)
    THEN [q EXCEPT !.pc = "done", !.raised = error, !.raisedAt = q.pc,
                   !.outcome = "returned", !.retval = CatchReturn(error)]
    ELSE [q EXCEPT !.pc = "done", !.raised = error, !.raisedAt = q.pc,
                   !.outcome = "rejected"]

\* The handler is invoked: mode is compared and import(build) is awaited.
Receive ==
    /\ ~running
    /\ rq.pc \in {"idle", "done"}
    /\ handled < MaxRequests
    /\ handled' = handled + 1
    /\ \E p \in Paths, h \in InboundHeaders :
          rq' = [IdleRequest EXCEPT !.pc = "import", !.path = p, !.headers = h,
                                    !.prevBuild = rq.serverBuild]
    /\ UNCHANGED <<config, moduleCache, disk, running>>

\* import(build): the module the cache holds, else the one on disk, which
\* is then cached with the files it loads.
ImportCache(cache, version) ==
    IF Build \in DOMAIN cache THEN cache
    ELSE [k \in DOMAIN cache \cup {Build, BuildDep} |->
            IF k \in {Build, BuildDep} THEN version ELSE cache[k]]

ImportResolve ==
    /\ ~running
    /\ rq.pc = "import"
    /\ moduleCache' = ImportCache(moduleCache, disk)
    /\ rq' = [rq EXCEPT !.pc = "purge",
                        !.serverBuild = moduleCache'[Build],
                        !.steps = Append(@, "resolve")]
    /\ running' = TRUE
    /\ UNCHANGED <<config, disk, handled>>

\* for (const key in require.cache) if (key.startsWith(build)) delete ...
purgeRequireCache(cache, build) ==
    [k \in {key \in DOMAIN cache : ~StartsWith(key, build)} |-> cache[k]]

\* A variant: the mode is not consulted.
PurgeGuardAnyMode == config.enablePurgeRequireCache

\* if (enablePurgeRequireCache && !production)
PurgeGuard == config.enablePurgeRequireCache /\ ~production

\* createRemixRequestHandler(serverBuild, environment), then the purge.
PurgeStep ==
    /\ running
    /\ rq.pc = "purge"
    /\ moduleCache' = IF PurgeGuard THEN purgeRequireCache(moduleCache, Build)
                      ELSE moduleCache
    /\ rq' = [rq EXCEPT !.pc = "static"]
    /\ UNCHANGED <<config, disk, running, handled>>

\* request.path.startsWith("/build")
IsBuiltPath(path) == StartsWith(path, BuildPrefix)

\* The index consulted for a path, the key, the asset found and its lifetime.
StaticLookup(path) ==
    IF IsBuiltPath(path)
    THEN LET key == Replace(path, BuildPrefix, <<>>)
         IN [index |-> "built", key |-> key, asset |-> builtAssets(key),
             maxAge |-> ONE_YEAR]
    ELSE [index |-> "public", key |-> path, asset |-> publicAssets(path),
          maxAge |-> ONE_HOUR]

\* asset.cached ? response.send(asset.content) : asset.stream().pipe(response)
ServeCall(asset) ==
    IF asset.cached THEN SendCall(asset.content) ELSE PipeCall(asset.content)

\* A variant: the asset is served without returning.
AfterHitFallThrough == "translate"

\* return response.send(...) / return readable.pipe(response)
AfterHit == "done"

StaticStep ==
    /\ running
    /\ rq.pc = "static"
    /\ IF ~config.enableServeStaticAssets
       THEN /\ rq' = [rq EXCEPT !.pc = "translate"]
            /\ UNCHANGED running
       ELSE LET l == StaticLookup(rq.path)
                looked == [rq EXCEPT
                              !.steps = Append(@, "static"),
                              !.lookups = Append(@, [index |-> l.index, key |-> l.key])]
            IN IF Found(l.asset)
               THEN /\ rq' = [looked EXCEPT
                                 !.pc = AfterHit,
                                 !.served = l.index,
                                 !.calls = @ \o <<CacheControlCall(l.maxAge),
                                                  ServeCall(l.asset)>>,
                                 !.outcome = "returned",
                                 !.retval = "response"]
                    /\ running' = (AfterHit # "done")
               ELSE /\ rq' = [looked EXCEPT !.pc = "translate"]
                    /\ UNCHANGED running
    /\ UNCHANGED <<config, moduleCache, disk, handled>>

\* createRemixRequest: the controller is created, the close listener is
\* registered on the response and the headers are copied.  The URL, the
\* method and the body of the canonical request are in no property below
\* and are left out of the record.
TranslateStep ==
    /\ running
    /\ rq.pc = "translate"
    /\ rq' = [rq EXCEPT !.pc = "hook",
                        !.listener = TRUE,
                        !.remixHeaders = createRemixHeaders(rq.headers),
                        !.steps = Append(@, "translate")]
    /\ UNCHANGED <<config, moduleCache, disk, running, handled>>

\* await getLoadContext?.(request, response)
HookStep ==
    /\ running
    /\ rq.pc = "hook"
    /\ IF config.getLoadContext
       THEN /\ rq' = [rq EXCEPT !.pc = "hookwait", !.steps = Append(@, "hook")]
            /\ running' = FALSE
       ELSE /\ rq' = [rq EXCEPT !.pc = "engine"]
            /\ UNCHANGED running
    /\ UNCHANGED <<config, moduleCache, disk, handled>>

HookResolve ==
    /\ ~running
    /\ rq.pc = "hookwait"
    /\ rq' = [rq EXCEPT !.pc = "engine", !.hookResolved = TRUE]
    /\ running' = TRUE
    /\ UNCHANGED <<config, moduleCache, disk, handled>>

\* await handleRequest(remixRequest, loadContext)
EngineStep ==
    /\ running
    /\ rq.pc = "engine"
    /\ rq' = [rq EXCEPT !.pc = "enginewait",
                        !.engineCalls = @ + 1,
                        !.steps = Append(@, "engine")]
    /\ running' = FALSE
    /\ UNCHANGED <<config, moduleCache, disk, handled>>

EngineResolve ==
    /\ ~running
    /\ rq.pc = "enginewait"
    /\ \E resp \in EngineResponses :
          rq' = [rq EXCEPT !.pc = "send", !.nodeResponse = resp]
    /\ running' = TRUE
    /\ UNCHANGED <<config, moduleCache, disk, handled>>

\* ------------------------------------------------------ sendRemixResponse

\* A variant: the third argument of response.header is left out.
HeaderOverwriteDefault == TRUE

\* response.header(key, value, false)
HeaderOverwrite == FALSE

RECURSIVE ValueCalls(_, _)
ValueCalls(name, values) ==
    IF values = <<>> THEN <<>>
    ELSE <<HeaderCall(name, values[1], HeaderOverwrite)>>
         \o ValueCalls(name, Tail(values))

RECURSIVE HeaderCalls(_)
HeaderCalls(raw) ==
    IF raw = <<>> THEN <<>>
    ELSE ValueCalls(raw[1].name, raw[1].values) \o HeaderCalls(Tail(raw))

\* response.status(...) and the header loop
HeadCalls(resp) ==
    <<StatusCall(resp.status, resp.statusText)>> \o HeaderCalls(resp.headers)

\* Up to the await of writeReadableStreamToWritable, or to send() when the
\* canonical response has no body.
SendHead ==
    /\ running
    /\ rq.pc = "send"
    /\ LET resp == rq.nodeResponse
           head == [rq EXCEPT !.steps = Append(@, "send"),
                              !.calls = @ \o HeadCalls(resp)]
       IN IF resp.body # NoBody
          THEN rq' = [head EXCEPT !.pc = "stream"]
          ELSE rq' = [head EXCEPT !.pc = "done",
                                  !.calls = Append(@, SendCall("")),
                                  !.outcome = "returned",
                                  !.retval = "undefined"]
    /\ running' = FALSE
    /\ UNCHANGED <<config, moduleCache, disk, handled>>

\* writeReadableStreamToWritable forwards the next chunk.
StreamChunk ==
    /\ ~running
    /\ rq.pc = "stream"
    /\ rq.written < Len(rq.nodeResponse.body)
    /\ rq' = [rq EXCEPT !.written = @ + 1,
                        !.calls = Append(@, WriteCall(rq.nodeResponse.body[rq.written + 1]))]
    /\ UNCHANGED <<config, moduleCache, disk, running, handled>>

\* A variant: writeReadableStreamToWritable is not awaited.
DrainedAtOnce(q) == TRUE

\* The promise of writeReadableStreamToWritable resolves once the stream has
\* been forwarded to its end.
Drained(q) == q.written = Len(q.nodeResponse.body)

\* The await resumes and response.send() is called.
StreamEnd ==
    /\ ~running
    /\ rq.pc = "stream"
    /\ Drained(rq)
    /\ rq' = [rq EXCEPT !.pc = "done",
                        !.calls = Append(@, SendCall("")),
                        !.outcome = "returned",
                        !.retval = "undefined"]
    /\ UNCHANGED <<config, moduleCache, disk, running, handled>>

\* ------------------------------------------------------------- failures

\* A call made by the handler's synchronous code throws: creating the engine
\* handler or purging, the asset lookup, createRemixRequest, getLoadContext,
\* sendRemixResponse's calls on the response.
Throw ==
    /\ running
    /\ rq.pc \in {"purge", "static", "translate", "hook", "send"}
    /\ \E e \in Errors : rq' = Caught(rq, e)
    /\ running' = FALSE
    /\ UNCHANGED <<config, moduleCache, disk, handled>>

\* A promise the handler awaits is rejected: import(build), getLoadContext,
\* handleRequest, writeReadableStreamToWritable.
Reject ==
    /\ ~running
    /\ rq.pc \in {"import", "hookwait", "enginewait", "stream"}
    /\ \E e \in Errors : rq' = Caught(rq, e)
    /\ UNCHANGED <<config, moduleCache, disk, running, handled>>

\* ---------------------------------------------------------- environment

\* The response's close event: the listeners registered by then run.
Close ==
    /\ ~running
    /\ rq.pc # "idle"
    /\ ~rq.closed
    /\ rq' = [rq EXCEPT !.closed = TRUE,
                        !.closedAt = rq.pc,
                        !.aborted = rq.listener]
    /\ UNCHANGED <<config, moduleCache, disk, running, handled>>

\* The build module is rewritten on disk.
DiskChange ==
    /\ ~running
    /\ disk < MaxVersion
    /\ disk' = disk + 1
    /\ UNCHANGED <<config, moduleCache, running, handled, rq>>

Next ==
    \/ Receive
    \/ ImportResolve
    \/ PurgeStep
    \/ StaticStep
    \/ TranslateStep
    \/ HookStep
    \/ HookResolve
    \/ EngineStep
    \/ EngineResolve
    \/ SendHead
    \/ StreamChunk
    \/ StreamEnd
    \/ Throw
    \/ Reject
    \/ Close
    \/ DiskChange

Spec == Init /\ [][Next]_vars

\* ------------------------------------------------------------ properties

Did(step) == \E i \in 1..Len(rq.steps) : rq.steps[i] = step

RECURSIVE CountOp(_, _)
CountOp(calls, op) ==
    IF calls = <<>> THEN 0
    ELSE (IF calls[1].op = op THEN 1 ELSE 0) + CountOp(Tail(calls), op)

\* C1: if the response's close event occurs before the rendering engine's
\* invocation resolves, be it while the build is resolved, while
\* getLoadContext is pending or while the engine runs, the signal of the
\* canonical request given to the engine is aborted.
C1_CloseBeforeEngineResolvesAborts ==
    (/\ rq.closed
     /\ rq.closedAt \in {"import", "hookwait", "enginewait"}
     /\ rq.engineCalls >= 1)
    => rq.aborted

\* C2: a failure raised at any step of the handler never escapes it: the
\* handler completes normally and returns exactly the error value raised.
C2_FailureReturnedAsIs ==
    rq.raised # NoError =>
        /\ rq.pc = "done"
        /\ rq.outcome = "returned"
        /\ rq.retval = rq.raised

\* A failure of the body streaming inside sendRemixResponse was returned.
C2_Witness ==
    /\ rq.raised = "E2"
    /\ rq.raisedAt = "stream"
    /\ rq.written >= 1
    /\ rq.retval = "E2"

WriteCalls(body) == [i \in 1..Len(body) |-> WriteCall(body[i])]

\* The calls of a sendRemixResponse that has called send: the status and
\* headers, the whole body if there is one, then send.
CompleteCalls(resp) ==
    HeadCalls(resp)
    \o (IF resp.body = NoBody THEN <<>> ELSE WriteCalls(resp.body))
    \o <<SendCall("")>>

RECURSIVE FlatPairs(_)
FlatPairs(raw) ==
    IF raw = <<>> THEN <<>>
    ELSE [i \in 1..Len(raw[1].values) |-> Pair(raw[1].name, raw[1].values[i])]
         \o FlatPairs(Tail(raw))

IsHeaderCall(c) == c.op = "header"

EmittedHeaders == SelectSeq(rq.calls, IsHeaderCall)

\* C4: sendRemixResponse sets the status first and then emits one header
\* per (name, value) pair of the canonical response, in order and in append
\* mode: the outbound response holds, under each name, exactly the values
\* the canonical response has under it.
C4_HeadersAppendedPerValue ==
    Did("send") =>
        LET resp  == rq.nodeResponse
            pairs == FlatPairs(resp.headers)
        IN /\ rq.calls[1] = StatusCall(resp.status, resp.statusText)
           /\ CountOp(rq.calls, "status") = 1
           /\ Len(EmittedHeaders) = Len(pairs)
           /\ \A i \in 1..Len(pairs) :
                 /\ EmittedHeaders[i].name = pairs[i].name
                 /\ EmittedHeaders[i].value = pairs[i].value
                 /\ rq.calls[i + 1] = EmittedHeaders[i]
           /\ \A i \in 1..Len(resp.headers) :
                 OutboundValues(rq.calls, resp.headers[i].name) = resp.headers[i].values

\* Two Set-Cookie values arrived as two Set-Cookie headers, after another one.
C4_Witness ==
    /\ Did("send")
    /\ Len(rq.nodeResponse.headers) = 2
    /\ OutboundValues(rq.calls, "set-cookie") = <<"a", "b">>

\* What the claim expects of createRemixHeaders: every value of a list as its
\* own entry, a string as one entry, in the inbound order.
RECURSIVE ExpectedHeaders(_)
ExpectedHeaders(entries) ==
    IF entries = <<>> THEN <<>>
    ELSE [i \in 1..Len(entries[1].values.values) |->
            Pair(entries[1].name, entries[1].values.values[i])]
         \o ExpectedHeaders(Tail(entries))

\* C5: createRemixHeaders copies all inbound headers: each value of a list
\* as its own entry, a single string, the empty string included, as exactly
\* one entry; none is dropped and none is added.
C5_AllHeadersCopied ==
    Did("translate") => rq.remixHeaders = ExpectedHeaders(rq.headers)

\* A path that is in neither index.
MatchesNeither(path) ==
    /\ builtAssets(Replace(path, BuildPrefix, <<>>)) = NoAsset
    /\ publicAssets(path) = NoAsset

NoCacheControl ==
    \A i \in 1..Len(rq.calls) : rq.calls[i].name # "Cache-Control"

AssetMiss ==
    /\ config.enableServeStaticAssets
    /\ Did("static")
    /\ MatchesNeither(rq.path)

C7_CacheLifetimeMatchesIndex ==
    rq.served # "none" =>
        LET key   == rq.lookups[Len(rq.lookups)].key
            asset == IF rq.served = "built" THEN builtAssets(key) ELSE publicAssets(key)
            age   == IF rq.served = "built" THEN 31536000 ELSE 3600
        IN /\ config.enableServeStaticAssets
           /\ asset # NoAsset
           /\ rq.lookups[Len(rq.lookups)].index = rq.served
           /\ Len(rq.calls) = 2
           /\ rq.calls[1] = CacheControlCall(age)
           /\ rq.calls[2].op = (IF asset.cached THEN "send" ELSE "pipe")
           /\ rq.calls[2].value = asset.content

\* A public asset that is not cached was piped with the one-hour lifetime.
C7_Witness ==
    /\ rq.served = "public"
    /\ rq.calls[2] = PipeCall("public-v")

NoBuildEntry(cache) == \A k \in DOMAIN cache : ~StartsWith(k, Build)

\* C8 as stated: in non-production mode every request invalidates the
\* module-cache entries of the build path after resolving the build.
C8_NonProductionAlwaysPurges ==
    (~production /\ running /\ rq.pc = "static") => NoBuildEntry(moduleCache)

\* C8 as amended: in non-production mode with purgeRequireCache enabled, a
\* request that has resolved the build deletes the module-cache entries
\* whose key starts with the build path, and only those, so that the next
\* resolution loads the module from disk; in production mode, or with
\* purgeRequireCache disabled, the handler deletes no entry and a resolution
\* returns the module the cache holds.
C8_PurgeOnlyOutsideProduction ==
    [][ /\ (rq.pc = "purge" /\ rq'.pc = "static" /\ ~production
              /\ config.enablePurgeRequireCache)
           => /\ NoBuildEntry(moduleCache')
              /\ \A k \in DOMAIN moduleCache :
                    ~StartsWith(k, Build) => k \in DOMAIN moduleCache'
        /\ (production \/ ~config.enablePurgeRequireCache)
           => \A k \in DOMAIN moduleCache :
                 k \in DOMAIN moduleCache' /\ moduleCache'[k] = moduleCache[k]
        /\ (rq.pc = "import" /\ rq'.pc = "purge")
           => rq'.serverBuild = (IF Build \in DOMAIN moduleCache
                                 THEN moduleCache[Build] ELSE disk)
      ]_vars

\* In development a second resolution picked up the module changed on disk.
C8_Witness ==
    /\ ~production
    /\ config.enablePurgeRequireCache
    /\ handled = 2
    /\ rq.prevBuild = 1
    /\ rq.serverBuild = 2
    /\ rq.pc = "static"
    /\ NoBuildEntry(moduleCache)

StepOrder == <<"resolve", "static", "translate", "hook", "engine", "send">>

Rank(step) == CHOOSE i \in 1..Len(StepOrder) : StepOrder[i] = step

\* C9: the lifecycle steps run in one fixed order, none repeated; the close
\* listener is registered by request translation; a static-asset hit is
\* terminal; the engine is invoked at most once and never before the
\* context hook has completed.
C9_StepsInFixedOrder ==
    /\ \A i, j \in 1..Len(rq.steps) : i < j => Rank(rq.steps[i]) < Rank(rq.steps[j])
    /\ rq.listener <=> Did("translate")
    /\ rq.served # "none" =>
          /\ rq.pc = "done"
          /\ rq.steps = <<"resolve", "static">>
    /\ rq.engineCalls <= 1
    /\ rq.engineCalls = 1 <=> Did("engine")
    /\ (Did("engine") /\ config.getLoadContext) => (Did("hook") /\ rq.hookResolved)
    /\ Did("send") => Did("engine")
    /\ Did("engine") => Did("translate")
    /\ Did("translate") => Did("resolve")
    /\ Did("static") => Did("resolve")

\* A request went through all six steps.
C9_Witness ==
    /\ rq.steps = StepOrder
    /\ rq.pc = "done"
    /\ rq.raised = NoError

\* The path is /build or begins with /build/.
UnderBuildSegment(path) ==
    path = BuildPrefix \/ StartsWith(path, BuildPrefix \o <<"/">>)

\* C10: with static serving enabled a path is looked up in the built-assets
\* index, under the path stripped of the prefix, exactly when it is /build
\* or begins with /build/, and in the public-assets index under its full
\* path otherwise; with static serving disabled no index is consulted.
C10_BuiltIndexOnlyUnderBuildSegment ==
    /\ ~config.enableServeStaticAssets => rq.lookups = <<>>
    /\ Len(rq.lookups) <= 1
    /\ \A i \in 1..Len(rq.lookups) :
          IF UnderBuildSegment(rq.path)
          THEN /\ rq.lookups[i].index = "built"
               /\ BuildPrefix \o rq.lookups[i].key = rq.path
          ELSE /\ rq.lookups[i].index = "public"
               /\ rq.lookups[i].key = rq.path

====
